---- MODULE Spec2Model ----
(***************************************************************************)
(* Interactive time-series chart engine of the industrial dashboard:       *)
(* the range model (zoom / pan / clamp), the selection (drag-to-zoom)      *)
(* controller, the legend visibility controller and the React components   *)
(* that own them.                                                          *)
(*                                                                         *)
(* The repository holds several chart variants, each with its own copy of  *)
(* the logic, and each is modelled from its own source:                    *)
(*   - the range model on its own (calculateRange.ts, and calculateZoom /  *)
(*     calculatePan of InteractiveChart): variables prefixed rm            *)
(*   - InteractiveChart (useChartZoomPan, useChartData): prefixed i        *)
(*   - the Chart compound component (ChartContext.tsx, useWheelZoom.ts,    *)
(*     ChartCanvas, ChartBrush): prefixed p, or named as in the hooks      *)
(*   - the legend toggles of the Chart provider, InteractiveChart and      *)
(*     TrendChart                                                          *)
(* A specification runs one of them and holds the others in their idle     *)
(* state.                                                                  *)
(*                                                                         *)
(* Numbers.  Indices are integers.  A zoom amount and a focus fraction are *)
(* reals in the code; here each is a rational given by numerator and       *)
(* denominator, and Math.floor / Math.ceil of their product are computed   *)
(* exactly by integer division.                                            *)
(*                                                                         *)
(* React.  A component's handlers are closures over the values of the last *)
(* render.  State set by a handler is committed at once (React's update    *)
(* queue) and becomes visible to closures at the next render.  Handlers of *)
(* discrete events (mousedown, mouseup, click) are followed by a           *)
(* synchronous render; handlers of continuous events (mousemove, wheel,    *)
(* touchmove, animation frames, timers) are not, and the render is a step  *)
(* of its own.                                                             *)
(***************************************************************************)
EXTENDS Integers, Sequences, FiniteSets, TLC

\* ------------------------------------------------------------------ bounds

\* Largest dataset length.
MaxLen == 9
\* Largest dataset length of the pure range-model specification.
RmMaxLen == 16
\* Focus fractions are k / FocusDen, k in 0..FocusDen.
FocusDen == 4
\* Zoom amounts of the pure range-model specification are k / ZoomDen.
ZoomDen == 2
\* Largest zoom-amount numerator (either sign).
MaxZoomNum == 7
\* Largest accumulated drag delta (either sign), in pixels.
MaxDelta == 40
\* Largest dataset length of the Chart provider's wheel / pinch specification.
WheelMaxLen == 8
\* Wheel and pinch focus fractions are k / WheelFocusDen, k in 0..WheelFocusDen.
WheelFocusDen == 2
\* Distances between the two fingers of a pinch are 1..MaxDistance.
MaxDistance == 2
\* Largest dataset length of the wheel-event history specification.
RafMaxLen == 12
\* Largest maxDataPoints option of useChartData.
MaxDataPoints == 3
\* The polling interval, in clock ticks.
PollInterval == 2
\* Largest number of realtime fetches in flight at once.
MaxInflight == 2
\* Number of samples the server produces (a point is its sample's number).
MaxSample == 4
MaxExports == 2
\* Largest dataset length of the Chart provider's selection specification.
SelMaxLen == 5
\* The dataset length of the provider-with-legend specification.
VisLen == 7
\* Largest dataset length of the repeated zoom-out specification.
ZoMaxLen == 12
\* Longest dataset of the provider that no user touches.
UtMaxLen == 9
\* The x labels of the data points repeat with this period (time-of-day labels).
LabelPeriod == 3

\* ------------------------------------------------------- program constants

MIN_ZOOM_ITEMS == 5
MIN_ZOOM_POINTS == 5
DRAG_THRESHOLD == 15
\* ZOOM_FACTOR = 0.05 = 1 / ZOOM_FACTOR_DEN
ZOOM_FACTOR_DEN == 20
\* zoomSpeed = 0.1 = 1 / ZOOM_SPEED_DEN
ZOOM_SPEED_DEN == 10

\* ---------------------------------------------------------------- numbers

Max(a, b) == IF a >= b THEN a ELSE b
Min(a, b) == IF a <= b THEN a ELSE b
Abs(a) == IF a >= 0 THEN a ELSE -a

\* Math.floor(n / d), d > 0
MathFloor(n, d) == n \div d
\* Math.ceil(n / d), d > 0
MathCeil(n, d) == -((-n) \div d)
\* Math.trunc(n / d), d > 0
MathTrunc(n, d) == IF n >= 0 THEN n \div d ELSE -((-n) \div d)
\* Math.round(n / d), d > 0: the nearest integer, a tie going up.
MathRound(n, d) == (2 * n + d) \div (2 * d)

\* ------------------------------------------------------------ range model
\* calculateRange.ts: a RangeState is [startIndex, endIndex].

Range(s, e) == [startIndex |-> s, endIndex |-> e]

\* calculateNewRange with Math.floor where the code has Math.ceil.
calculateNewRangeFloorEnd(currentRange, totalLength, zNum, zDen, fNum, fDen) ==
  IF currentRange.endIndex - currentRange.startIndex <= MIN_ZOOM_ITEMS /\ zNum > 0
  THEN currentRange
  ELSE
    LET newStart == Max(0, currentRange.startIndex + MathFloor(zNum * fNum, zDen * fDen))
        newEnd == Min(totalLength - 1,
                      currentRange.endIndex - MathFloor(zNum * (fDen - fNum), zDen * fDen))
    IN  IF newStart >= newEnd - MIN_ZOOM_ITEMS
        THEN currentRange
        ELSE Range(newStart, newEnd)

\* calculateNewRange without the Math.min that keeps the end in the dataset.
calculateNewRangeNoEndClamp(currentRange, totalLength, zNum, zDen, fNum, fDen) ==
  IF currentRange.endIndex - currentRange.startIndex <= MIN_ZOOM_ITEMS /\ zNum > 0
  THEN currentRange
  ELSE
    LET newStart == Max(0, currentRange.startIndex + MathFloor(zNum * fNum, zDen * fDen))
        newEnd == currentRange.endIndex - MathCeil(zNum * (fDen - fNum), zDen * fDen)
    IN  IF newStart >= newEnd - MIN_ZOOM_ITEMS
        THEN currentRange
        ELSE Range(newStart, newEnd)

\* zoomAmount = zNum / zDen, focusPercentage = fNum / fDen.
calculateNewRange(currentRange, totalLength, zNum, zDen, fNum, fDen) ==
  IF currentRange.endIndex - currentRange.startIndex <= MIN_ZOOM_ITEMS /\ zNum > 0
  THEN currentRange
  ELSE
    LET newStart == Max(0, currentRange.startIndex + MathFloor(zNum * fNum, zDen * fDen))
        newEnd == Min(totalLength - 1,
                      currentRange.endIndex - MathCeil(zNum * (fDen - fNum), zDen * fDen))
    IN  IF newStart >= newEnd - MIN_ZOOM_ITEMS
        THEN currentRange
        ELSE Range(newStart, newEnd)

clampRange(range, dataLength) ==
  LET maxEnd == Max(0, dataLength - 1)
  IN  Range(Min(range.startIndex, maxEnd), Min(range.endIndex, maxEnd))

\* createInitialRange that ends one past the last index.
createInitialRangePastEnd(dataLength) == Range(0, Max(0, dataLength))

createInitialRange(dataLength) == Range(0, Max(0, dataLength - 1))

checkIsZoomed(range, dataLength) ==
  range.startIndex > 0 \/ range.endIndex < dataLength - 1

\* InteractiveChart (useChartZoomPan): a window is the pair <<start, end>>,
\* and null is the empty tuple.
Null == <<>>

\* calculateZoom returns a window or null.
calculateZoom(currentRange, deltaY, dataLength) ==
  LET start == currentRange[1]
      end == currentRange[2]
      currentLength == end - start
      direction == IF deltaY > 0 THEN 1 ELSE -1
      moveAmount == Max(1, MathRound(currentLength, ZOOM_FACTOR_DEN))
      newStart0 == start - direction * moveAmount
      newEnd0 == end + direction * moveAmount
      newStart == IF newStart0 < 0 THEN 0 ELSE newStart0
      newEnd == IF newEnd0 > dataLength - 1 THEN dataLength - 1 ELSE newEnd0
  IN  IF newEnd - newStart < MIN_ZOOM_POINTS THEN Null ELSE <<newStart, newEnd>>

calculatePanNoEdgeClamp(currentRange, accumulatedDelta, dataLength) ==
  LET steps == MathTrunc(accumulatedDelta, DRAG_THRESHOLD)
  IN  IF steps = 0 THEN Null
      ELSE [range |-> <<currentRange[1] - steps, currentRange[2] - steps>>,
            remainingDelta |-> accumulatedDelta - steps * DRAG_THRESHOLD]

\* calculatePan that hands back the whole accumulated delta.
calculatePanKeepsDelta(currentRange, accumulatedDelta, dataLength) ==
  LET steps == MathTrunc(accumulatedDelta, DRAG_THRESHOLD)
  IN  IF steps = 0 THEN Null
      ELSE [range |-> <<currentRange[1] - steps, currentRange[2] - steps>>,
            remainingDelta |-> accumulatedDelta]

\* calculatePan returns [range, remainingDelta] or null.
calculatePan(currentRange, accumulatedDelta, dataLength) ==
  LET steps == MathTrunc(accumulatedDelta, DRAG_THRESHOLD)
      moveIndexCount == -steps
      start == currentRange[1]
      end == currentRange[2]
      windowSize == end - start
      maxIndex == dataLength - 1
      newStart0 == start + moveIndexCount
      newEnd0 == end + moveIndexCount
      \* if (newStart < 0) { newStart = 0; newEnd = windowSize }
      newStart1 == IF newStart0 < 0 THEN 0 ELSE newStart0
      newEnd1 == IF newStart0 < 0 THEN windowSize ELSE newEnd0
      \* if (newEnd > maxIndex) { newEnd = maxIndex; newStart = maxIndex - windowSize }
      newEnd2 == IF newEnd1 > maxIndex THEN maxIndex ELSE newEnd1
      newStart2 == IF newEnd1 > maxIndex THEN maxIndex - windowSize ELSE newStart1
  IN  IF steps = 0 THEN Null
      ELSE [range |-> <<newStart2, newEnd2>>,
            remainingDelta |-> accumulatedDelta - steps * DRAG_THRESHOLD]

\* TrendChart.handleMouseMove, the pan it applies once the accumulator has
\* reached the threshold (the same arithmetic, written inline there).
trendChartPan(windowRangeOrNull, accumulated, dataLength) ==
  LET steps == MathTrunc(accumulated, DRAG_THRESHOLD)
      moveIndexCount == -steps
      current == IF windowRangeOrNull = Null THEN <<0, dataLength - 1>> ELSE windowRangeOrNull
      start == current[1]
      end == current[2]
      windowSize == end - start
      maxIndex == dataLength - 1
      newStart0 == start + moveIndexCount
      newEnd0 == end + moveIndexCount
      newStart1 == IF newStart0 < 0 THEN 0 ELSE newStart0
      newEnd1 == IF newStart0 < 0 THEN windowSize ELSE newEnd0
      newEnd2 == IF newEnd1 > maxIndex THEN maxIndex ELSE newEnd1
      newStart2 == IF newEnd1 > maxIndex THEN maxIndex - windowSize ELSE newStart1
  IN  IF moveIndexCount = 0 THEN Null
      ELSE [range |-> <<newStart2, newEnd2>>,
            remainingDelta |-> accumulated - steps * DRAG_THRESHOLD]

\* ---------------------------------------------------------------- state

VARIABLES
  \* the pure range model: a dataset length and a range over it
  rmLen, rmRange, rmOp,
  \* Chart provider (ChartContext.tsx): the data prop (its length and the
  \* position of its first point in the label stream), the internalRange
  \* state, the range captured by useWheelZoom's rangeRef at the last render,
  \* the selection state and the selection the handlers of the last render
  \* closed over
  pOff, pLen, internalRange, rangeRef, selection, selectionR,
  \* the data indices under the cursor at the mouse-down and at the last
  \* mouse-move of the selection in progress (what the user pointed at)
  anchorIdx, cursorIdx,
  \* useWheelZoom: the call held by rafThrottle until the animation frame,
  \* the lastTouchDistance ref (0 for null), and the last range operation
  wheelFrame, lastTouchDistance, pOp,
  \* legend visibility: the hiddenSeries state of the Chart provider, of
  \* InteractiveChart (useChartLegend) and of TrendChart
  hiddenSeries, iHiddenSeries, tHiddenSeries, lOp,
  \* the dataKeys of the series of the Chart provider's config prop
  config,
  \* history of the wheel events (what an observer of the canvas records):
  \* the direction and cursor position of the last wheel event, and the
  \* range reached by applying every wheel event, in arrival order, the
  \* moment it arrives
  lastWheel, unthrottledRange,
  \* useChartData (features/chart/hooks): the query cache entry of QUERY_KEY
  \* (present or undefined, and its points), the maxDataPoints option, and per
  \* mounted consumer of the hook its interval timer (ticks until it fires)
  \* and its realtime fetches in flight; the fetches in flight of consumers
  \* that unmounted; the server's newest sample; the ticks since the last
  \* polling merge
  qHasData, qData, qMaxDataPoints, qMounted, qTimer, qInflight, qOrphans,
  qSample, qSinceMerge, qOp,
  \* export: per chart, whether containerRef.current is an element, the
  \* isExporting state, the exports in progress and the end of the last call
  containerRef, isExporting, eExports, eOutcome, eOp,
  \* InteractiveChart (ChartProvider of useChartZoomPan): data.length, the
  \* windowRange and isDragging states, each with the value the handlers of
  \* the last render closed over (suffix R), and the dragAccumulator ref
  iLen, windowRange, windowRangeR, isDragging, isDraggingR, dragAccumulator, iOp

rmVars == <<rmLen, rmRange, rmOp>>
iVars == <<iLen, windowRange, windowRangeR, isDragging, isDraggingR, dragAccumulator, iOp>>
pVars == <<pOff, pLen, internalRange, rangeRef, selection, selectionR,
           anchorIdx, cursorIdx, wheelFrame, lastTouchDistance, pOp>>
lVars == <<hiddenSeries, iHiddenSeries, tHiddenSeries, lOp, config>>
wVars == <<lastWheel, unthrottledRange>>
qVars == <<qHasData, qData, qMaxDataPoints, qMounted, qTimer, qInflight, qOrphans,
           qSample, qSinceMerge, qOp>>
eVars == <<containerRef, isExporting, eExports, eOutcome, eOp>>
vars == <<rmVars, iVars, pVars, lVars, wVars, qVars, eVars>>

\* What each specification leaves alone.
exceptRm == <<iVars, pVars, lVars, wVars, qVars, eVars>>
exceptI == <<rmVars, pVars, lVars, wVars, qVars, eVars>>
exceptP == <<rmVars, iVars, lVars, wVars, qVars, eVars>>
exceptL == <<rmVars, iVars, pVars, wVars, qVars, eVars>>
exceptQ == <<rmVars, iVars, pVars, lVars, wVars, eVars>>
exceptE == <<rmVars, iVars, pVars, lVars, wVars, qVars>>

\* The mounted instances of a component that calls useChartData.
Consumers == {"a", "b"}
\* No interval is set.
NoTimer == -1
\* The charts with an export menu: TrendChart, and the InteractiveChart of
\* ProductionTrendFeature.
Charts == {"trend", "interactive"}

\* dataKeys of the series.
SeriesKeys == {"production", "defectCount", "yield"}

\* SelectionState; a label is a positive number and null is NoLabel.
NoLabel == 0
NoIndex == -1
Selection(s, e, b) == [startX |-> s, endX |-> e, isSelecting |-> b]
IdleSelection == Selection(NoLabel, NoLabel, FALSE)

\* The state of each component while another specification runs.
RmIdle ==
  /\ rmLen = MIN_ZOOM_ITEMS
  /\ rmRange = createInitialRange(MIN_ZOOM_ITEMS)
  /\ rmOp = "init"
IIdle ==
  /\ iLen = 0 /\ windowRange = Null /\ windowRangeR = Null
  /\ isDragging = FALSE /\ isDraggingR = FALSE /\ dragAccumulator = 0 /\ iOp = "init"
PIdle ==
  /\ pOff = 0 /\ pLen = 0
  /\ internalRange = createInitialRange(0) /\ rangeRef = createInitialRange(0)
  /\ selection = IdleSelection /\ selectionR = IdleSelection
  /\ anchorIdx = NoIndex /\ cursorIdx = NoIndex
  /\ wheelFrame = Null /\ lastTouchDistance = 0
  /\ pOp = "init"
QIdle ==
  /\ qHasData = FALSE /\ qData = <<>> /\ qMaxDataPoints = 1
  /\ qMounted = [c \in Consumers |-> FALSE]
  /\ qTimer = [c \in Consumers |-> NoTimer]
  /\ qInflight = [c \in Consumers |-> 0]
  /\ qOrphans = 0 /\ qSample = 0 /\ qSinceMerge = PollInterval /\ qOp = "init"
EIdle ==
  /\ containerRef = [ch \in Charts |-> FALSE]
  /\ isExporting = [ch \in Charts |-> FALSE]
  /\ eExports = [ch \in Charts |-> <<>>]
  /\ eOutcome = [ch \in Charts |-> "none"]
  /\ eOp = <<"init", "trend">>
WIdle ==
  /\ lastWheel = Null /\ unthrottledRange = createInitialRange(0)
LIdle ==
  /\ hiddenSeries = {} /\ iHiddenSeries = {} /\ tHiddenSeries = {} /\ lOp = "init"
  /\ config = SeriesKeys

\* ------------------------------------------- the range model on its own
\* A fixed dataset length; the range starts at createInitialRange and every
\* step applies one range operation with an input of its domain.

AsWindow(r) == <<r.startIndex, r.endIndex>>
AsRange(w) == Range(w[1], w[2])

RmInit ==
  /\ rmLen \in MIN_ZOOM_ITEMS..RmMaxLen
  /\ rmRange = createInitialRange(rmLen)
  /\ rmOp = "init"
  /\ IIdle /\ PIdle /\ LIdle /\ WIdle /\ QIdle /\ EIdle

RmNewRange ==
  \E zNum \in (-MaxZoomNum)..MaxZoomNum, fNum \in 0..FocusDen :
    /\ rmRange' = calculateNewRange(rmRange, rmLen, zNum, ZoomDen, fNum, FocusDen)
    /\ rmOp' = "newRange"
    /\ UNCHANGED <<rmLen, exceptRm>>

\* zoomIn / zoomOut: calculateZoom with deltaY = -100 / 100; null keeps the window.
RmZoom ==
  \E deltaY \in {-100, 100} :
    LET zoomResult == calculateZoom(AsWindow(rmRange), deltaY, rmLen)
    IN  /\ rmRange' = IF zoomResult = Null THEN rmRange ELSE AsRange(zoomResult)
        /\ rmOp' = "zoom"
        /\ UNCHANGED <<rmLen, exceptRm>>

RmPan ==
  \E delta \in (-MaxDelta)..MaxDelta :
    LET panResult == calculatePan(AsWindow(rmRange), delta, rmLen)
    IN  /\ rmRange' = IF panResult = Null THEN rmRange ELSE AsRange(panResult.range)
        /\ rmOp' = "pan"
        /\ UNCHANGED <<rmLen, exceptRm>>

RmNext == RmNewRange \/ RmZoom \/ RmPan

SpecRange == RmInit /\ [][RmNext]_vars

\* ------------------------------------------------------ InteractiveChart
\* useChartZoomPan + useChartData of the InteractiveChart provider, with
\* enableZoom and enablePan at their defaults (true).  The dataset is its
\* length: these hooks read nothing else of it.

\* Horizontal mouse movement between two mousemove events, in pixels.
DragDeltas == {-20, -8, 8, 20}

\* useChartData: currentWindow
currentWindow(range, dataLength) ==
  IF range # Null THEN range ELSE <<0, Max(0, dataLength - 1)>>

\* windowRange || [0, dataLength - 1]
windowOrFull(range, dataLength) ==
  IF range # Null THEN range ELSE <<0, dataLength - 1>>

\* The unclamped shift of a pan leaves [0, dataLength - 1].
passesEdge(w, accumulated, dataLength) ==
  LET steps == MathTrunc(accumulated, DRAG_THRESHOLD)
  IN  w[1] - steps < 0 \/ w[2] - steps > dataLength - 1

IInit ==
  /\ iLen \in 0..MaxLen
  /\ windowRange = Null /\ windowRangeR = Null
  /\ isDragging = FALSE /\ isDraggingR = FALSE
  /\ dragAccumulator = 0
  /\ iOp = "init"
  /\ RmIdle /\ PIdle /\ LIdle /\ WIdle /\ QIdle /\ EIdle

\* A render: the handlers are re-created over the current state.
IRendered ==
  /\ windowRangeR' = windowRange'
  /\ isDraggingR' = isDragging'

\* The parent passes a new dataset (load, refetch, polling merge).
IDataChange ==
  \E n \in 0..MaxLen :
    /\ n # iLen
    /\ iLen' = n
    /\ UNCHANGED <<windowRange, isDragging, dragAccumulator>>
    /\ IRendered
    /\ iOp' = "data"
    /\ UNCHANGED exceptI

\* A render with no new props: it picks up the state set by mousemove / mouseleave.
IRender ==
  /\ UNCHANGED <<iLen, windowRange, isDragging, dragAccumulator>>
  /\ IRendered
  /\ iOp' = "render"
  /\ UNCHANGED exceptI

\* zoomIn / zoomOut buttons (click).
IZoomButton ==
  \E deltaY \in {-100, 100} :
    /\ iLen # 0
    /\ LET zoomResult == calculateZoom(windowOrFull(windowRangeR, iLen), deltaY, iLen)
       IN  /\ zoomResult # Null
           /\ windowRange' = zoomResult
    /\ UNCHANGED <<iLen, isDragging, dragAccumulator>>
    /\ IRendered
    /\ iOp' = "zoom"
    /\ UNCHANGED exceptI

\* resetZoom button (click).
IResetZoom ==
  /\ windowRange' = Null
  /\ UNCHANGED <<iLen, isDragging, dragAccumulator>>
  /\ IRendered
  /\ iOp' = "reset"
  /\ UNCHANGED exceptI

IMouseDown ==
  /\ dragAccumulator' = 0
  /\ isDragging' = TRUE
  /\ UNCHANGED <<iLen, windowRange>>
  /\ IRendered
  /\ iOp' = "down"
  /\ UNCHANGED exceptI

\* handleMouseMove; deltaX = e.clientX - lastClientX.current.
IMouseMove ==
  \E deltaX \in DragDeltas :
    /\ isDraggingR
    /\ LET acc == dragAccumulator + deltaX
           panResult == calculatePan(windowOrFull(windowRangeR, iLen), acc, iLen)
       IN  IF Abs(acc) < DRAG_THRESHOLD \/ panResult = Null
           THEN /\ dragAccumulator' = acc
                /\ UNCHANGED windowRange
                /\ iOp' = "move"
           ELSE /\ windowRange' = panResult.range
                /\ dragAccumulator' = panResult.remainingDelta
                /\ iOp' = IF passesEdge(windowOrFull(windowRangeR, iLen), acc, iLen)
                          THEN "panEdge" ELSE "pan"
    /\ UNCHANGED <<iLen, windowRangeR, isDragging, isDraggingR>>
    /\ UNCHANGED exceptI

\* handleMouseUp on mouseup: a discrete event, rendered at once.
IMouseUp ==
  /\ isDragging' = FALSE
  /\ dragAccumulator' = 0
  /\ UNCHANGED <<iLen, windowRange>>
  /\ IRendered
  /\ iOp' = "up"
  /\ UNCHANGED exceptI

\* handleMouseUp on mouseleave: a continuous event.
IMouseLeave ==
  /\ isDragging' = FALSE
  /\ dragAccumulator' = 0
  /\ UNCHANGED <<iLen, windowRange, windowRangeR, isDraggingR>>
  /\ iOp' = "leave"
  /\ UNCHANGED exceptI

INext ==
  \/ IDataChange \/ IRender \/ IZoomButton \/ IResetZoom
  \/ IMouseDown \/ IMouseMove \/ IMouseUp \/ IMouseLeave

SpecInteractive == IInit /\ [][INext]_vars

\* ------------------------------------------------------ the Chart provider
\* ChartContext.tsx (uncontrolled mode), useWheelZoom.ts, ChartCanvas and
\* ChartBrush.  The dataset is pLen consecutive points of a stream whose x
\* labels repeat with period LabelPeriod, starting at position pOff; the
\* handlers read nothing of a point but its label.

\* item[xDataKey] of data[i]
labelAt(off, i) == ((off + i) % LabelPeriod) + 1

\* data.findIndex((item) => item[xDataKey] === label)
findIndex(off, len, label) ==
  IF \E i \in 0..(len - 1) : labelAt(off, i) = label
    THEN CHOOSE i \in 0..(len - 1) :
           /\ labelAt(off, i) = label
           /\ \A j \in 0..(i - 1) : labelAt(off, j) # label
    ELSE -1

\* commitSelection that clears the selection only after resolving the labels.
commitSelectionKeepsUndragged(sel, off, len, range) ==
  IF sel.startX = NoLabel \/ sel.endX = NoLabel \/ sel.startX = sel.endX
    THEN [range |-> range, selection |-> sel]
    ELSE LET startIdx == findIndex(off, len, sel.startX)
             endIdx == findIndex(off, len, sel.endX)
         IN  [range |-> IF startIdx # -1 /\ endIdx # -1
                          THEN Range(Min(startIdx, endIdx), Max(startIdx, endIdx))
                          ELSE range,
              selection |-> IdleSelection]

\* commitSelection over the selection and data of its closure: the range and
\* the selection state it leaves.
commitSelection(sel, off, len, range) ==
  IF sel.startX = NoLabel \/ sel.endX = NoLabel \/ sel.startX = sel.endX
    THEN [range |-> range, selection |-> IdleSelection]
    ELSE LET startIdx == findIndex(off, len, sel.startX)
             endIdx == findIndex(off, len, sel.endX)
         IN  [range |-> IF startIdx # -1 /\ endIdx # -1
                          THEN Range(Min(startIdx, endIdx), Max(startIdx, endIdx))
                          ELSE range,
              selection |-> IdleSelection]

\* performZoom(direction, clientX) of a subscription made for totalLength,
\* reading currentRange from rangeRef; focusPercentage = fNum / WheelFocusDen.
\* The range it passes to setRange, or Null when it calls nothing.
performZoom(currentRange, totalLength, direction, fNum) ==
  LET currentLength == currentRange.endIndex - currentRange.startIndex
      newRange == calculateNewRange(currentRange, totalLength,
                    currentLength * direction, ZOOM_SPEED_DEN, fNum, WheelFocusDen)
  IN  IF currentLength <= MIN_ZOOM_ITEMS /\ direction > 0 THEN Null
      ELSE IF newRange # currentRange THEN newRange
      ELSE Null

\* A call held by rafThrottle: its arguments, the totalLength of the
\* subscription that took it, and whether that subscription's element is
\* still in the document.
Frame(direction, fNum, totalLength, attached) ==
  [direction |-> direction, fNum |-> fNum, totalLength |-> totalLength,
   attached |-> attached]

\* A render of the provider over dataset (off, len): the handlers close over
\* the committed selection, useWheelZoom's effect stores the rendered range in
\* rangeRef, and the clamp effect stores clampRange's result when it differs.
\* An empty dataset unmounts the canvas element.
PRendered(off, len) ==
  /\ selectionR' = selection
  /\ rangeRef' = internalRange
  /\ internalRange' = clampRange(internalRange, len)
  /\ wheelFrame' = IF wheelFrame # Null /\ len = 0
                     THEN [wheelFrame EXCEPT !.attached = FALSE]
                     ELSE wheelFrame

\* The parent passes a new dataset: another length, or other points.
PDataChange(offsets, lengths) ==
  \E off \in offsets, len \in lengths :
    /\ <<off, len>> # <<pOff, pLen>>
    /\ pOff' = off /\ pLen' = len
    /\ PRendered(off, len)
    /\ pOp' = "data"
    /\ UNCHANGED <<selection, anchorIdx, cursorIdx, lastTouchDistance, exceptP>>

\* A render with no new props: it picks up state set by a continuous event
\* or by the clamp effect.
PRender ==
  /\ selectionR # selection \/ rangeRef # internalRange
  /\ PRendered(pOff, pLen)
  /\ pOp' = "render"
  /\ UNCHANGED <<pOff, pLen, selection, anchorIdx, cursorIdx, lastTouchDistance, exceptP>>

\* ChartBrush.handleChange while the brush is dragged.
PBrushChange ==
  /\ pLen > 0
  /\ \E s \in 0..(pLen - 1), e \in 0..(pLen - 1) :
       /\ s <= e
       /\ internalRange' = Range(s, e)
  /\ pOp' = "brush"
  /\ UNCHANGED <<pOff, pLen, rangeRef, selection, selectionR, anchorIdx, cursorIdx,
                 wheelFrame, lastTouchDistance, exceptP>>

\* ChartResetButton (rendered while isZoomed) -> resetZoom; a click.
PResetZoom ==
  /\ checkIsZoomed(rangeRef, pLen)
  /\ rangeRef' = createInitialRange(pLen)
  /\ internalRange' = clampRange(createInitialRange(pLen), pLen)
  /\ selectionR' = selection
  /\ pOp' = "reset"
  /\ UNCHANGED <<pOff, pLen, selection, anchorIdx, cursorIdx,
                 wheelFrame, lastTouchDistance, exceptP>>

\* --- useWheelZoom

\* handleWheel: rafThrottle takes the call if it holds none (and drops it
\* otherwise); direction = deltaY < 0 ? 1 : -1.
PWheel ==
  /\ pLen > 0
  /\ wheelFrame = Null
  /\ \E direction \in {1, -1}, fNum \in 0..WheelFocusDen :
       wheelFrame' = Frame(direction, fNum, pLen, TRUE)
  /\ UNCHANGED <<pOff, pLen, internalRange, rangeRef, selection, selectionR,
                 anchorIdx, cursorIdx, lastTouchDistance, pOp, exceptP>>

\* The animation frame: performZoom runs with the arguments rafThrottle took.
\* The rect of an element that left the document is empty, and
\* mouseX / rect.width = Infinity is clamped to focus 1.
PFrame ==
  /\ wheelFrame # Null
  /\ LET fNum == IF wheelFrame.attached THEN wheelFrame.fNum ELSE WheelFocusDen
         newRange == performZoom(rangeRef, wheelFrame.totalLength,
                                 wheelFrame.direction, fNum)
     IN  /\ internalRange' = IF newRange = Null THEN internalRange ELSE newRange
         /\ pOp' = IF newRange = Null THEN pOp ELSE "zoom"
  /\ wheelFrame' = Null
  /\ UNCHANGED <<pOff, pLen, rangeRef, selection, selectionR,
                 anchorIdx, cursorIdx, lastTouchDistance, exceptP>>

\* handleTouchStart with two fingers.
PTouchStart ==
  /\ pLen > 0
  /\ lastTouchDistance' = 0
  /\ UNCHANGED <<pOff, pLen, internalRange, rangeRef, selection, selectionR,
                 anchorIdx, cursorIdx, wheelFrame, pOp, exceptP>>

\* handleTouchMove with two fingers, when throttle(..., 16) passes the call
\* (a call it drops changes nothing): it zooms towards the change of the
\* fingers' distance since the last move.
PTouchMove ==
  /\ pLen > 0
  /\ \E currentDistance \in 1..MaxDistance, fNum \in 0..WheelFocusDen :
       LET direction == IF currentDistance > lastTouchDistance THEN 1 ELSE -1
           newRange == IF lastTouchDistance # 0
                         THEN performZoom(rangeRef, pLen, direction, fNum)
                         ELSE Null
       IN  /\ internalRange' = IF newRange = Null THEN internalRange ELSE newRange
           /\ lastTouchDistance' = currentDistance
           /\ pOp' = IF newRange = Null THEN pOp ELSE "pinch"
  /\ UNCHANGED <<pOff, pLen, rangeRef, selection, selectionR,
                 anchorIdx, cursorIdx, wheelFrame, exceptP>>

\* Dataset lengths of the wheel / pinch specification: empty, and the two
\* largest.
WheelLengths == {0, WheelMaxLen - 1, WheelMaxLen}

WheelInit ==
  /\ pOff = 0
  /\ pLen \in WheelLengths
  /\ internalRange = createInitialRange(pLen)
  /\ rangeRef = createInitialRange(pLen)
  /\ selection = IdleSelection /\ selectionR = IdleSelection
  /\ anchorIdx = NoIndex /\ cursorIdx = NoIndex
  /\ wheelFrame = Null /\ lastTouchDistance = 0
  /\ pOp = "init"
  /\ RmIdle /\ IIdle /\ LIdle /\ WIdle /\ QIdle /\ EIdle

WheelNext ==
  \/ PDataChange({0}, WheelLengths)
  \/ PRender
  \/ PBrushChange
  \/ PResetZoom
  \/ PWheel
  \/ PFrame
  \/ PTouchStart
  \/ PTouchMove

SpecWheel == WheelInit /\ [][WheelNext]_vars

\* --- useWheelZoom with the history of its wheel events
\* The dataset is fixed and every wheel event is a step, whether rafThrottle
\* takes the call or drops it.

\* The range after performZoom ran on it (setRange is called only for a new range).
zoomed(range, totalLength, direction, fNum) ==
  LET newRange == performZoom(range, totalLength, direction, fNum)
  IN  IF newRange = Null THEN range ELSE newRange

RafLengths == (MIN_ZOOM_ITEMS + 3)..RafMaxLen

\* deltaY of a wheel event: up, none (a horizontal scroll), down.
WheelDeltas == {-100, 0, 100}

\* handleWheel: const direction = e.deltaY < 0 ? 1 : -1
wheelDirection(deltaY) == IF deltaY < 0 THEN 1 ELSE -1

RafInit ==
  /\ pOff = 0
  /\ pLen \in RafLengths
  /\ internalRange = createInitialRange(pLen)
  /\ rangeRef = createInitialRange(pLen)
  /\ selection = IdleSelection /\ selectionR = IdleSelection
  /\ anchorIdx = NoIndex /\ cursorIdx = NoIndex
  /\ wheelFrame = Null /\ lastTouchDistance = 0
  /\ pOp = "init"
  /\ lastWheel = Null
  /\ unthrottledRange = createInitialRange(pLen)
  /\ RmIdle /\ IIdle /\ LIdle /\ QIdle /\ EIdle

\* handleWheel: throttledZoom(direction, e.clientX); rafThrottle returns at
\* once while a frame is requested (rafId !== null).
RafWheel ==
  \E deltaY \in WheelDeltas, fNum \in 0..WheelFocusDen :
    /\ wheelFrame' = IF wheelFrame = Null
                       THEN Frame(wheelDirection(deltaY), fNum, pLen, TRUE)
                       ELSE wheelFrame
    /\ lastWheel' = [deltaY |-> deltaY, direction |-> wheelDirection(deltaY),
                     fNum |-> fNum]
    /\ unthrottledRange' = zoomed(unthrottledRange, pLen, wheelDirection(deltaY), fNum)
    /\ UNCHANGED <<pOff, pLen, internalRange, rangeRef, selection, selectionR,
                   anchorIdx, cursorIdx, lastTouchDistance, pOp,
                   rmVars, iVars, lVars, qVars, eVars>>

RafNext == RafWheel \/ PFrame \/ PRender

SpecRaf == RafInit /\ [][RafNext]_vars

\* --- ChartCanvas: drag-to-zoom selection

\* handleMouseDown with an activeLabel (the point of index i under the cursor).
PMouseDown ==
  /\ pLen > 0
  /\ \E i \in 0..(pLen - 1) :
       /\ selection' = Selection(labelAt(pOff, i), labelAt(pOff, i), TRUE)
       /\ anchorIdx' = i /\ cursorIdx' = i
  /\ selectionR' = selection'
  /\ rangeRef' = internalRange
  /\ internalRange' = clampRange(internalRange, pLen)
  /\ pOp' = "down"
  /\ UNCHANGED <<pOff, pLen, wheelFrame, lastTouchDistance, exceptP>>

\* handleMouseDown with no activeLabel (outside the plot area): it returns.
PMouseDownNoLabel ==
  /\ pLen > 0
  /\ pOp' = "downNoLabel"
  /\ UNCHANGED <<pOff, pLen, internalRange, rangeRef, selection, selectionR,
                 anchorIdx, cursorIdx, wheelFrame, lastTouchDistance, exceptP>>

\* handleMouseMove with an activeLabel, while the handler's closure is selecting.
PMouseMove ==
  /\ pLen > 0
  /\ selectionR.isSelecting
  /\ \E i \in 0..(pLen - 1) :
       /\ selection' = [selection EXCEPT !.endX = labelAt(pOff, i)]
       /\ cursorIdx' = i
  /\ pOp' = "move"
  /\ UNCHANGED <<pOff, pLen, internalRange, rangeRef, selectionR, anchorIdx,
                 wheelFrame, lastTouchDistance, exceptP>>

\* handleMouseUp on mouseup: commitSelection, then the render of a discrete event.
PMouseUp ==
  /\ pLen > 0
  /\ selectionR.isSelecting
  /\ LET c == commitSelection(selectionR, pOff, pLen, internalRange)
     IN  /\ selection' = c.selection
         /\ selectionR' = c.selection
         /\ rangeRef' = c.range
         /\ internalRange' = clampRange(c.range, pLen)
  /\ anchorIdx' = NoIndex /\ cursorIdx' = NoIndex
  /\ pOp' = "up"
  /\ UNCHANGED <<pOff, pLen, wheelFrame, lastTouchDistance, exceptP>>

\* handleMouseUp on mouseleave: commitSelection, rendered later.
PMouseLeave ==
  /\ pLen > 0
  /\ selectionR.isSelecting
  /\ LET c == commitSelection(selectionR, pOff, pLen, internalRange)
     IN  /\ selection' = c.selection
         /\ internalRange' = c.range
  /\ anchorIdx' = NoIndex /\ cursorIdx' = NoIndex
  /\ pOp' = "leave"
  /\ UNCHANGED <<pOff, pLen, rangeRef, selectionR,
                 wheelFrame, lastTouchDistance, exceptP>>

\* Dataset lengths of the selection specification: empty, one period of the
\* labels (every label once), and the longest (labels repeat).
SelLengths == {0, LabelPeriod, SelMaxLen}

SelInit ==
  /\ pOff \in 0..(LabelPeriod - 1)
  /\ pLen \in SelLengths
  /\ internalRange = createInitialRange(pLen)
  /\ rangeRef = createInitialRange(pLen)
  /\ selection = IdleSelection /\ selectionR = IdleSelection
  /\ anchorIdx = NoIndex /\ cursorIdx = NoIndex
  /\ wheelFrame = Null /\ lastTouchDistance = 0
  /\ pOp = "init"
  /\ RmIdle /\ IIdle /\ LIdle /\ WIdle /\ QIdle /\ EIdle

SelNext ==
  \/ PDataChange(0..(LabelPeriod - 1), SelLengths)
  \/ PRender
  \/ PMouseDown
  \/ PMouseDownNoLabel
  \/ PMouseMove
  \/ PMouseUp
  \/ PMouseLeave

SpecSelection == SelInit /\ [][SelNext]_vars


\* ------------------------------------------------------ polling (useChartData)
\* features/chart/hooks/useChartData.ts: the history query and the realtime
\* polling that merges one point per fetch into the query cache.  The cache
\* entry belongs to the QueryClient and is shared by every consumer of the
\* hook.  A point is the number of the server sample it carries.  Time is a
\* clock of ticks; a fetch takes any number of ticks.

\* Array.prototype.slice(begin)
ArraySlice(arr, begin) ==
  LET start == IF begin < 0 THEN Max(Len(arr) + begin, 0) ELSE Min(begin, Len(arr))
  IN  SubSeq(arr, start + 1, Len(arr))

\* A merge that keeps the oldest points when the window is full.
mergeRealtimePointKeepsOldest(existingData, newPoint, maxDataPoints) ==
  LET updated == Append(existingData, newPoint)
  IN  IF Len(updated) > maxDataPoints
        THEN SubSeq(updated, 1, maxDataPoints)
        ELSE updated

\* mergeRealtimePoint of useChartData.ts: updated.slice(updated.length - maxDataPoints)
mergeRealtimePoint(existingData, newPoint, maxDataPoints) ==
  LET updated == Append(existingData, newPoint)
  IN  IF Len(updated) > maxDataPoints
        THEN ArraySlice(updated, Len(updated) - maxDataPoints)
        ELSE updated

\* mergeRealtimePoint of the hook's other copy: updated.slice(-maxDataPoints)
mergeRealtimePointSliceFromEnd(existingData, newPoint, maxDataPoints) ==
  LET updated == Append(existingData, newPoint)
  IN  IF Len(updated) > maxDataPoints
        THEN ArraySlice(updated, -maxDataPoints)
        ELSE updated

\* A poll that empties the cache entry when its fetch fails.
pollRealtimeClearsOnError(hasData, data, fetchOk, point, maxDataPoints) ==
  IF fetchOk /\ hasData THEN mergeRealtimePoint(data, point, maxDataPoints)
  ELSE <<>>

\* pollRealtime: the points of the cache entry after the callback, for a
\* fetch that resolved with `point` (fetchOk) or rejected (caught and logged).
\* The updater returns an undefined entry as it is.
pollRealtime(hasData, data, fetchOk, point, maxDataPoints) ==
  IF fetchOk /\ hasData THEN mergeRealtimePoint(data, point, maxDataPoints)
  ELSE data

\* Realtime fetches in flight, of mounted and of unmounted consumers.
InFlight == qOrphans + qInflight["a"] + qInflight["b"]

\* The polling effect of every mounted consumer re-runs when rawData is a new
\* value: clearInterval, then setInterval(pollRealtime, pollingInterval).
timersAfter(mounted, hasData, changed) ==
  [c \in Consumers |->
     IF ~mounted[c] \/ ~hasData THEN NoTimer
     ELSE IF changed \/ qTimer[c] = NoTimer THEN PollInterval
     ELSE qTimer[c]]

QInit ==
  /\ qHasData = FALSE /\ qData = <<>>
  /\ qMaxDataPoints \in 1..MaxDataPoints
  /\ qMounted = [c \in Consumers |-> FALSE]
  /\ qTimer = [c \in Consumers |-> NoTimer]
  /\ qInflight = [c \in Consumers |-> 0]
  /\ qOrphans = 0 /\ qSample = 0 /\ qSinceMerge = PollInterval /\ qOp = "init"
  /\ RmIdle /\ IIdle /\ PIdle /\ LIdle /\ WIdle /\ EIdle

\* A consumer mounts: useQuery reads the cache entry, and the polling effect
\* sets the interval if the entry has data.
QMount ==
  \E c \in Consumers :
    /\ ~qMounted[c]
    /\ qMounted' = [qMounted EXCEPT ![c] = TRUE]
    /\ qTimer' = [qTimer EXCEPT ![c] = IF qHasData THEN PollInterval ELSE NoTimer]
    /\ UNCHANGED <<qHasData, qData, qMaxDataPoints, qInflight, qOrphans, qSample,
                   qSinceMerge, qOp, exceptQ>>

\* A consumer unmounts: the effect's cleanup clears the interval; the fetches
\* it started stay in flight.
QUnmount ==
  \E c \in Consumers :
    /\ qMounted[c]
    /\ qMounted' = [qMounted EXCEPT ![c] = FALSE]
    /\ qTimer' = [qTimer EXCEPT ![c] = NoTimer]
    /\ qOrphans' = qOrphans + qInflight[c]
    /\ qInflight' = [qInflight EXCEPT ![c] = 0]
    /\ UNCHANGED <<qHasData, qData, qMaxDataPoints, qSample, qSinceMerge, qOp, exceptQ>>

\* The queryFn resolves (first load, or a refetch): the entry becomes the
\* server's history, its newest h samples.
QHistoryLoaded ==
  /\ \E c \in Consumers : qMounted[c]
  /\ \E h \in 0..Min(qSample, MaxDataPoints + 1) :
       /\ qData' = [i \in 1..h |-> qSample - h + i]
       /\ qTimer' = timersAfter(qMounted, TRUE, ~qHasData \/ qData' # qData)
  /\ qHasData' = TRUE
  /\ qOp' = "load"
  /\ UNCHANGED <<qMaxDataPoints, qMounted, qInflight, qOrphans, qSample,
                 qSinceMerge, exceptQ>>

\* The entry is garbage-collected once it has no observer.
QGarbageCollect ==
  /\ \A c \in Consumers : ~qMounted[c]
  /\ qHasData
  /\ qHasData' = FALSE /\ qData' = <<>>
  /\ UNCHANGED <<qMaxDataPoints, qMounted, qTimer, qInflight, qOrphans, qSample,
                 qSinceMerge, qOp, exceptQ>>

\* The server produces a sample.
QServerSample ==
  /\ qSample < MaxSample
  /\ qSample' = qSample + 1
  /\ UNCHANGED <<qHasData, qData, qMaxDataPoints, qMounted, qTimer, qInflight,
                 qOrphans, qSinceMerge, qOp, exceptQ>>

\* The clock advances by one tick, once every interval that is due has fired.
QTick ==
  /\ \A c \in Consumers : qTimer[c] # 0
  /\ qTimer' = [c \in Consumers |-> IF qTimer[c] > 0 THEN qTimer[c] - 1 ELSE qTimer[c]]
  /\ qSinceMerge' = Min(PollInterval, qSinceMerge + 1)
  /\ UNCHANGED <<qHasData, qData, qMaxDataPoints, qMounted, qInflight, qOrphans,
                 qSample, qOp, exceptQ>>

\* An interval fires: pollRealtime starts fetchChartRealtime.
QIntervalFires ==
  \E c \in Consumers :
    /\ qTimer[c] = 0
    /\ InFlight < MaxInflight
    /\ qTimer' = [qTimer EXCEPT ![c] = PollInterval]
    /\ qInflight' = [qInflight EXCEPT ![c] = @ + 1]
    /\ UNCHANGED <<qHasData, qData, qMaxDataPoints, qMounted, qOrphans, qSample,
                   qSinceMerge, qOp, exceptQ>>

\* The rest of pollRealtime once its fetch settled: setQueryData with the
\* merge, or the catch.  A new entry value re-renders the consumers.
QSettled(fetchOk) ==
  LET data == pollRealtime(qHasData, qData, fetchOk, qSample, qMaxDataPoints)
  IN  /\ qData' = data
      /\ qTimer' = timersAfter(qMounted, qHasData, data # qData)
      /\ qSinceMerge' = IF data # qData THEN 0 ELSE qSinceMerge
      /\ qOp' = IF ~fetchOk THEN "failed"
                ELSE IF data # qData THEN "merged"
                ELSE "same"
      /\ UNCHANGED <<qHasData, qMaxDataPoints, qMounted, qSample, exceptQ>>

\* A fetch of a mounted consumer settles.
QFetchSettled ==
  \E c \in Consumers, fetchOk \in BOOLEAN :
    /\ qInflight[c] > 0
    /\ qInflight' = [qInflight EXCEPT ![c] = @ - 1]
    /\ QSettled(fetchOk)
    /\ UNCHANGED qOrphans

\* A fetch settles whose consumer has unmounted.
QOrphanSettled ==
  \E fetchOk \in BOOLEAN :
    /\ qOrphans > 0
    /\ qOrphans' = qOrphans - 1
    /\ QSettled(fetchOk)
    /\ UNCHANGED qInflight

QNext ==
  \/ QMount
  \/ QUnmount
  \/ QHistoryLoaded
  \/ QGarbageCollect
  \/ QServerSample
  \/ QTick
  \/ QIntervalFires
  \/ QFetchSettled
  \/ QOrphanSettled

SpecPolling == QInit /\ [][QNext]_vars

\* ------------------------------------------------------ legend visibility
\* The hiddenSeries state and its toggle, written three times in the
\* repository: ChartContext.toggleSeries, useChartLegend.toggleSeries
\* (InteractiveChart) and TrendChart.handleLegendClick.

\* A toggle that only ever hides.
toggleSeriesAddOnly(prev, dataKey) == prev \cup {dataKey}

\* The updater passed to setHiddenSeries: next = new Set(prev), then delete
\* the key if present, add it otherwise.
toggleSeries(prev, dataKey) ==
  IF dataKey \in prev THEN prev \ {dataKey} ELSE prev \cup {dataKey}

LInit ==
  /\ hiddenSeries = {} /\ iHiddenSeries = {} /\ tHiddenSeries = {}
  /\ config = SeriesKeys
  /\ lOp = "init"
  /\ RmIdle /\ IIdle /\ PIdle /\ WIdle /\ QIdle /\ EIdle

\* Chart provider: a click on a legend item.
LToggleSeries ==
  \E dataKey \in SeriesKeys :
    /\ hiddenSeries' = toggleSeries(hiddenSeries, dataKey)
    /\ lOp' = dataKey
    /\ UNCHANGED <<iHiddenSeries, tHiddenSeries, config, exceptL>>

\* InteractiveChart: useChartLegend's toggleSeries.
LInteractiveToggleSeries ==
  \E dataKey \in SeriesKeys :
    /\ iHiddenSeries' = toggleSeries(iHiddenSeries, dataKey)
    /\ lOp' = dataKey
    /\ UNCHANGED <<hiddenSeries, tHiddenSeries, config, exceptL>>

\* TrendChart: handleLegendClick.
LTrendLegendClick ==
  \E dataKey \in SeriesKeys :
    /\ tHiddenSeries' = toggleSeries(tHiddenSeries, dataKey)
    /\ lOp' = dataKey
    /\ UNCHANGED <<hiddenSeries, iHiddenSeries, config, exceptL>>

LNext == LToggleSeries \/ LInteractiveToggleSeries \/ LTrendLegendClick

SpecLegend == LInit /\ [][LNext]_vars

\* ---------------------------------------------------------------- claims

\* C1 (P1, bounds invariant): for a fixed dataset length N >= 5, after any
\* sequence of calculateNewRange / calculateZoom / calculatePan steps from
\* createInitialRange(N), 0 <= start <= end <= N-1 and end-start+1 >= 5.
C1_BoundsInvariant ==
  /\ 0 <= rmRange.startIndex
  /\ rmRange.startIndex <= rmRange.endIndex
  /\ rmRange.endIndex <= rmLen - 1
  /\ rmRange.endIndex - rmRange.startIndex + 1 >= MIN_ZOOM_ITEMS

\* C1 witness: a zoomed-in window that a pan has pushed flush against the
\* right edge of the dataset.
C1_Witness ==
  /\ rmOp = "pan"
  /\ rmRange.startIndex > 0
  /\ rmRange.endIndex = rmLen - 1

\* C3 (stale range never out of bounds): whenever the dataset length has
\* changed, the window exposed to the renderers and read by the next zoom or
\* pan has both bounds within [0, length-1]; a pan never yields a negative
\* start.  Stated for InteractiveChart over a non-empty dataset.
C3_WindowWithinDataset ==
  iLen > 0 =>
    LET w == currentWindow(windowRangeR, iLen)
    IN  0 <= w[1] /\ w[2] <= iLen - 1

\* C5 (P3, pan edge clamp): for a window smaller than the dataset and any
\* accumulated drag delta, calculatePan (and the inline pan of TrendChart)
\* keeps end - start; a shift that would pass index 0 ends with start = 0 and
\* one that would pass length-1 ends with end = length-1.
PanKeepsSizeAtEdges(w, panResult, accumulated, dataLength) ==
  LET steps == MathTrunc(accumulated, DRAG_THRESHOLD)
  IN  panResult # Null =>
        /\ panResult.range[2] - panResult.range[1] = w[2] - w[1]
        /\ (w[1] - steps < 0 => panResult.range[1] = 0)
        /\ (w[2] - steps > dataLength - 1 => panResult.range[2] = dataLength - 1)

C5_PanEdgeClamp ==
  \A w \in {windowOrFull(windowRange, iLen), windowOrFull(windowRangeR, iLen)} :
    w[2] - w[1] + 1 < iLen =>
      \A accumulated \in (-MaxDelta)..MaxDelta :
        /\ PanKeepsSizeAtEdges(w, calculatePan(w, accumulated, iLen), accumulated, iLen)
        /\ PanKeepsSizeAtEdges(w, trendChartPan(w, accumulated, iLen), accumulated, iLen)

\* C5 witness: a drag has just panned a window smaller than the dataset past
\* the left edge, and the window sits at index 0.
C5_Witness ==
  /\ iOp = "panEdge"
  /\ windowRangeR # Null
  /\ windowRangeR[2] - windowRangeR[1] + 1 < iLen
  /\ windowRange[1] = 0
  /\ windowRangeR[1] > 0

\* C6 (P2, zoom round trip).  A step is rejected when calculateNewRange
\* returns its input through one of its two guards, and edge-clamped when
\* Math.max(0, .) or Math.min(length-1, .) changes a bound.
ZoomRejected(r, len, zNum, zDen, fNum, fDen) ==
  \/ r.endIndex - r.startIndex <= MIN_ZOOM_ITEMS /\ zNum > 0
  \/ Max(0, r.startIndex + MathFloor(zNum * fNum, zDen * fDen))
       >= Min(len - 1, r.endIndex - MathCeil(zNum * (fDen - fNum), zDen * fDen))
            - MIN_ZOOM_ITEMS
ZoomEdgeClamped(r, len, zNum, zDen, fNum, fDen) ==
  \/ r.startIndex + MathFloor(zNum * fNum, zDen * fDen) < 0
  \/ r.endIndex - MathCeil(zNum * (fDen - fNum), zDen * fDen) > len - 1
ZoomApplies(r, len, zNum, zDen, fNum, fDen) ==
  /\ ~ZoomRejected(r, len, zNum, zDen, fNum, fDen)
  /\ ~ZoomEdgeClamped(r, len, zNum, zDen, fNum, fDen)
ZoomIn(r, zNum, fNum) == calculateNewRange(r, rmLen, zNum, ZoomDen, fNum, FocusDen)
ZoomInOut(r, zNum, fNum) ==
  calculateNewRange(ZoomIn(r, zNum, fNum), rmLen, -zNum, ZoomDen, fNum, FocusDen)
RoundTripApplies(r, zNum, fNum) ==
  /\ ZoomApplies(r, rmLen, zNum, ZoomDen, fNum, FocusDen)
  /\ ZoomApplies(ZoomIn(r, zNum, fNum), rmLen, -zNum, ZoomDen, fNum, FocusDen)
WindowSize(r) == r.endIndex - r.startIndex
\* 1 when n / d is not an integer, else 0
Fractional(n, d) == IF n % d = 0 THEN 0 ELSE 1

\* C6 as claimed: zooming in by a > 0 and out by a at the same focus, neither
\* step rejected or edge-clamped, gives back a window of the same size.
C6_RoundTripSameSize ==
  \A zNum \in 1..MaxZoomNum, fNum \in 0..FocusDen :
    RoundTripApplies(rmRange, zNum, fNum) =>
      WindowSize(ZoomInOut(rmRange, zNum, fNum)) = WindowSize(rmRange)

\* C6 as amended: the size after the round trip differs by at most one; it is
\* one smaller when only a*(1-f) is fractional, one larger when only a*f is
\* fractional, and the same when both or neither are.
C6_RoundTripWithinOne ==
  \A zNum \in 1..MaxZoomNum, fNum \in 0..FocusDen :
    RoundTripApplies(rmRange, zNum, fNum) =>
      WindowSize(ZoomInOut(rmRange, zNum, fNum))
        = WindowSize(rmRange)
            - Fractional(zNum * (FocusDen - fNum), ZoomDen * FocusDen)
            + Fractional(zNum * fNum, ZoomDen * FocusDen)

\* C6 witness: a range reached by a zoom from which some round trip, with
\* neither step rejected or clamped, comes back one index narrower.
C6_Witness ==
  /\ rmOp = "newRange"
  /\ \E zNum \in 1..MaxZoomNum, fNum \in 0..FocusDen :
       /\ RoundTripApplies(rmRange, zNum, fNum)
       /\ WindowSize(ZoomInOut(rmRange, zNum, fNum)) = WindowSize(rmRange) - 1

\* C2 (minimum window over the Chart provider): in every reachable state of
\* the provider whose dataset has at least 5 points, the range spans at
\* least 5 indices: end - start + 1 >= 5.
C2_MinimumWindow ==
  pLen >= MIN_ZOOM_ITEMS =>
    internalRange.endIndex - internalRange.startIndex + 1 >= MIN_ZOOM_ITEMS

\* C4 (range lifecycle): every step that changes the dataset (its length or
\* its points) leaves the range at the fully zoomed-out (0, length - 1).
C4_ReinitOnDataChange ==
  [][(pLen' # pLen \/ pOff' # pOff) =>
       internalRange' = createInitialRange(pLen')]_vars

\* The end calculateNewRange returns at focus 1: the input end, or the last
\* index when it accepts a range whose end lies beyond the dataset.
EndAtFocusOne(range, totalLength, zNum) ==
  LET out == calculateNewRange(range, totalLength, zNum, ZoomDen, 1, 1)
  IN  IF out # range /\ range.endIndex > totalLength - 1
        THEN totalLength - 1
        ELSE range.endIndex

ToggleIsInvolution(H) ==
  \A k \in SeriesKeys :
    /\ toggleSeries(toggleSeries(H, k), k) = H
    /\ (k \in toggleSeries(H, k)) # (k \in H)
    /\ \A j \in SeriesKeys \ {k} : (j \in toggleSeries(H, k)) = (j \in H)

C8_ToggleInvolution ==
  /\ ToggleIsInvolution(hiddenSeries)
  /\ ToggleIsInvolution(iHiddenSeries)
  /\ ToggleIsInvolution(tHiddenSeries)

\* C8 witness: toggles have hidden series of each chart, and the key
\* toggled last is shown in the provider's chart.
C8_Witness ==
  /\ lOp \in SeriesKeys
  /\ lOp \notin hiddenSeries
  /\ hiddenSeries # {} /\ iHiddenSeries # {} /\ tHiddenSeries # {}

\* C9 (P6, selection commit): when a mouse-up or mouse-leave commits a
\* selection whose start is the label of the point of index i the drag began
\* on and whose end is the label of the point of index j it ended on, the
\* range becomes (min(i,j), max(i,j)) if i # j, and stays as it was if i = j.
C9_SelectionCommit ==
  [][(/\ pOp' \in {"up", "leave"}
      /\ anchorIdx \in 0..(pLen - 1) /\ cursorIdx \in 0..(pLen - 1)
      /\ selectionR.startX = labelAt(pOff, anchorIdx)
      /\ selectionR.endX = labelAt(pOff, cursorIdx))
     => internalRange' =
          IF anchorIdx # cursorIdx
            THEN Range(Min(anchorIdx, cursorIdx), Max(anchorIdx, cursorIdx))
            ELSE internalRange]_vars

\* C10 (selection state machine): the selection starts selecting only by a
\* mouse-down that carries a label; every mouse-up or mouse-leave while it is
\* selecting leaves it idle (startX = endX = null, isSelecting = false); while
\* it is selecting it has both labels, and the release handlers of the last
\* render see it selecting, so that a release or leave is never ignored.
C10_SelectionStateMachine ==
  [][/\ (selection'.isSelecting /\ ~selection.isSelecting) => pOp' = "down"
     /\ selection'.isSelecting => selectionR'.isSelecting
     /\ (selection.isSelecting /\ pOp' \in {"up", "leave"})
          => selection' = IdleSelection
     /\ selection'.isSelecting
          => selection'.startX # NoLabel /\ selection'.endX # NoLabel]_vars

\* C10 witness: a drag was released after the cursor moved to another label
\* and the committed selection is idle again.
C10_Witness ==
  /\ pOp = "up"
  /\ selection = IdleSelection
  /\ internalRange # createInitialRange(pLen)

\* C11 (per-frame coalescing uses the latest event): the animation frame
\* commits the range performZoom computes from the direction and cursor
\* position of the last wheel event that arrived before it.
C11_FrameUsesLatestEvent ==
  [][(wheelFrame # Null /\ wheelFrame' = Null) =>
       internalRange' = zoomed(rangeRef, pLen, lastWheel.direction, lastWheel.fNum)]_vars

\* C12 (throttling does not change the outcome): once no frame is pending
\* and the range is rendered, the range equals the one reached by applying
\* every wheel event un-throttled, in arrival order.
C12_ThrottledEqualsUnthrottled ==
  (wheelFrame = Null /\ rangeRef = internalRange) => internalRange = unthrottledRange

\* C13 (no stale range in zoom): every performZoom, run by the animation
\* frame or by a pinch move, computes the range it commits from the range
\* committed last (internalRange), rendered or not.
C13_ZoomReadsCommittedRange ==
  [][/\ (wheelFrame # Null /\ wheelFrame' = Null /\ wheelFrame.attached) =>
          internalRange' = zoomed(internalRange, wheelFrame.totalLength,
                                  wheelFrame.direction, wheelFrame.fNum)
     /\ (lastTouchDistance # 0 /\ lastTouchDistance' # lastTouchDistance) =>
          \E fNum \in 0..WheelFocusDen :
            internalRange' =
              zoomed(internalRange, pLen,
                     IF lastTouchDistance' > lastTouchDistance THEN 1 ELSE -1, fNum)]_vars

\* C14 as stated (reset returns to the full range): after resetZoom the
\* provider's range is (0, length - 1) for the current dataset, the chart
\* reports not-zoomed, and resetZoom again would store the same range; the
\* null that InteractiveChart's resetZoom stores is the same window.
C14_ResetReturnsToFullRange ==
  pOp = "reset" =>
    /\ internalRange = Range(0, pLen - 1)
    /\ ~checkIsZoomed(internalRange, pLen)
    /\ createInitialRange(pLen) = internalRange
    /\ currentWindow(Null, pLen) = <<0, pLen - 1>>

\* C14 amended: the same with the range (0, max(0, length - 1)): it is
\* (0, 0) when the dataset is empty.
C14_ResetReturnsToInitialRange ==
  pOp = "reset" =>
    /\ internalRange = Range(0, Max(0, pLen - 1))
    /\ ~checkIsZoomed(internalRange, pLen)
    /\ createInitialRange(pLen) = internalRange
    /\ currentWindow(Null, pLen) = <<0, Max(0, pLen - 1)>>

\* C14 witness: a range narrowed by zooming or brushing was reset, and a
\* wheel event has arrived since.
C14_Witness ==
  /\ pOp = "reset"
  /\ wheelFrame # Null
  /\ internalRange = Range(0, pLen - 1)

\* The result r of merging point p into old is a window of at most max
\* points: old's newest points in their order, then p.
IsSlidingWindow(r, old, p, max) ==
  /\ Len(r) = Min(Len(old) + 1, max)
  /\ r[Len(r)] = p
  /\ \A i \in 1..(Len(r) - 1) : r[i] = old[Len(old) - (Len(r) - 1) + i]

\* C15 (polling merge keeps a bounded sliding window): for every cache entry
\* of at most maxDataPoints points and a new point, both copies of
\* mergeRealtimePoint return min(len + 1, maxDataPoints) points, the new one
\* last after the newest existing ones in order; and after a merge the entry
\* never has more than maxDataPoints points.
C15_MergeKeepsSlidingWindow ==
  /\ Len(qData) <= qMaxDataPoints =>
       /\ IsSlidingWindow(mergeRealtimePoint(qData, qSample + 1, qMaxDataPoints),
                          qData, qSample + 1, qMaxDataPoints)
       /\ IsSlidingWindow(mergeRealtimePointSliceFromEnd(qData, qSample + 1, qMaxDataPoints),
                          qData, qSample + 1, qMaxDataPoints)
  /\ qOp \in {"merged", "same"} => Len(qData) <= qMaxDataPoints

\* C15 witness: a merge into a full window of more than one point evicted
\* the oldest point.
C15_Witness ==
  /\ qOp = "merged"
  /\ qMaxDataPoints > 1
  /\ Len(qData) = qMaxDataPoints
  /\ qData[1] > 1
  /\ qData[Len(qData)] = qSample

\* C16 (failed poll is a no-op): a poll whose fetch fails leaves the cache
\* entry as it was and leaves every interval as it was, so that each mounted
\* consumer of a loaded entry still has its interval set.
C16_FailedPollIsNoOp ==
  [][(InFlight' < InFlight /\ qOp' = "failed") =>
       /\ qData' = qData /\ qHasData' = qHasData
       /\ qTimer' = qTimer
       /\ \A c \in Consumers : (qMounted'[c] /\ qHasData') => qTimer'[c] # NoTimer]_vars

\* C16 witness: a poll failed over a loaded entry while a consumer's interval
\* is running.
C16_Witness ==
  /\ qOp = "failed"
  /\ qData # <<>>
  /\ \E c \in Consumers : qMounted[c] /\ qTimer[c] > 0

\* C17 (poll cancellation on unmount): when a fetch settles whose consumer
\* has unmounted, the cache entry is not modified.
C17_OrphanFetchDiscarded ==
  [][qOrphans' < qOrphans => qData' = qData]_vars

\* C18 (at most one replacement per polling interval): a polling merge
\* replaces the cache entry only if a full polling interval has passed since
\* the last polling merge.
C18_OneMergePerInterval ==
  [][(InFlight' < InFlight /\ qData' # qData) => qSinceMerge >= PollInterval]_vars

\* ---------------------------------------------------------------------
\* Export (useChartExport of the InteractiveChart, handleExportPNG and
\* handleExportSVG of TrendChart)
\* ---------------------------------------------------------------------

Formats == {"png", "svg"}

\* isAnimationActive of the series components.
isAnimationActive(dragging, exporting) == ~dragging /\ ~exporting

\* Whether the export menu can be opened: the trigger of the toolbar of
\* ProductionTrendFeature is disabled while isExporting, that of TrendChart
\* never is.
exportEnabled(ch, exporting) == ch = "interactive" => ~exporting

\* The sequence without its i-th element.
RemoveAt(seq, i) == SubSeq(seq, 1, i - 1) \o SubSeq(seq, i + 1, Len(seq))

\* The calls of executeExport in progress are told apart by a number: the
\* least one no call in progress on the chart holds.
ExportIds(exports) == {exports[i].id : i \in DOMAIN exports}
FreeId(exports) ==
  CHOOSE k \in 1..(Len(exports) + 1) :
    /\ k \notin ExportIds(exports)
    /\ \A j \in 1..(k - 1) : j \in ExportIds(exports)

\* setIsExporting(false) in the try block only, after downloadFile.
isExportingAfterTryOnly(ok) == ~ok

\* The flag executeExport sets when the capture has settled: the finally
\* runs after the download and after the catch alike.
isExportingAfterFinally(ok) == FALSE

EInit ==
  /\ EIdle
  /\ RmIdle /\ IIdle /\ PIdle /\ LIdle /\ WIdle /\ QIdle

\* The container element is committed: React sets containerRef.current.
EBind ==
  \E ch \in Charts :
    /\ ~containerRef[ch]
    /\ containerRef' = [containerRef EXCEPT ![ch] = TRUE]
    /\ eOp' = <<"bind", ch>>
    /\ UNCHANGED <<isExporting, eExports, eOutcome, exceptE>>

\* The container element is removed: React clears containerRef.current.
EUnbind ==
  \E ch \in Charts :
    /\ containerRef[ch]
    /\ containerRef' = [containerRef EXCEPT ![ch] = FALSE]
    /\ eOp' = <<"unbind", ch>>
    /\ UNCHANGED <<isExporting, eExports, eOutcome, exceptE>>

\* executeExport up to its first await: return if the container is null,
\* else setIsExporting(true) and start the 50 ms timer.
EExecuteExport ==
  \E ch \in Charts, format \in Formats :
    /\ exportEnabled(ch, isExporting[ch])
    /\ IF ~containerRef[ch]
         THEN /\ eOutcome' = [eOutcome EXCEPT ![ch] = "returned"]
              /\ eOp' = <<"unbound", ch>>
              /\ UNCHANGED <<isExporting, eExports>>
         ELSE /\ Len(eExports[ch]) < MaxExports
              /\ isExporting' = [isExporting EXCEPT ![ch] = TRUE]
              /\ eExports' = [eExports EXCEPT
                   ![ch] = Append(@, [id |-> FreeId(@), format |-> format,
                                  phase |-> "settling"])]
              /\ eOp' = <<"start", ch>>
              /\ UNCHANGED eOutcome
    /\ UNCHANGED <<containerRef, exceptE>>

\* The 50 ms timer of the oldest waiting export fires: exportFn(container)
\* starts the capture.
ECaptureStarts ==
  \E ch \in Charts, i \in 1..MaxExports :
    /\ i <= Len(eExports[ch])
    /\ eExports[ch][i].phase = "settling"
    /\ \A j \in 1..(i - 1) : eExports[ch][j].phase # "settling"
    /\ eExports' = [eExports EXCEPT ![ch][i].phase = "capturing"]
    /\ eOp' = <<"capture", ch>>
    /\ UNCHANGED <<containerRef, isExporting, eOutcome, exceptE>>

\* A capture settles: downloadFile, or the catch that logs; then the finally
\* with setIsExporting(false).
ECaptureSettled ==
  \E ch \in Charts, i \in 1..MaxExports, ok \in BOOLEAN :
    /\ i <= Len(eExports[ch])
    /\ eExports[ch][i].phase = "capturing"
    /\ eExports' = [eExports EXCEPT ![ch] = RemoveAt(@, i)]
    /\ isExporting' = [isExporting EXCEPT ![ch] = isExportingAfterFinally(ok)]
    /\ eOutcome' = [eOutcome EXCEPT ![ch] = IF ok THEN "downloaded" ELSE "logged"]
    /\ eOp' = <<"done", ch>>
    /\ UNCHANGED <<containerRef, exceptE>>

ENext == EBind \/ EUnbind \/ EExecuteExport \/ ECaptureStarts \/ ECaptureSettled

SpecExport == EInit /\ [][ENext]_vars

\* C19 (export against an unbound surface fails with an error value): a
\* call of exportPNG or exportSVG while the container reference is null ends
\* in the SurfaceUnavailable outcome, does not set isExporting and starts no
\* capture.
C19_UnboundExportFails ==
  [][\A ch \in Charts : eOp' = <<"unbound", ch>> =>
       /\ eOutcome'[ch] = "SurfaceUnavailable"
       /\ isExporting' = isExporting
       /\ eExports' = eExports]_vars

\* C20 (isExporting covers every export in progress): whenever a chart has
\* an export that started and has not finished its capture, its isExporting
\* is true and its series animations are off.
C20_IsExportingCoversExports ==
  \A ch \in Charts : eExports[ch] # <<>> =>
    /\ isExporting[ch]
    /\ ~isAnimationActive(isDragging, isExporting[ch])

\* C21 (empty dataset is safe): over an empty dataset, after every operation
\* of InteractiveChart the current window has 0 <= start <= end, and the
\* stored windowRange has no negative bound and no negative size.
C21_EmptyDatasetSafe ==
  iLen = 0 =>
    LET w == currentWindow(windowRange, iLen)
    IN  /\ 0 <= w[1] /\ w[1] <= w[2]
        /\ windowRange # Null => (windowRange[1] >= 0 /\ windowRange[2] >= 0)

\* A bound restricted to [0, length - 1] on both sides.
ClampIndex(i, len) == Max(0, Min(len - 1, i))

\* The zoom formula with both bounds clamped on both sides.
ZoomFormula(r, len, zNum, zDen, fNum, fDen) ==
  Range(ClampIndex(r.startIndex + MathFloor(zNum * fNum, zDen * fDen), len),
        ClampIndex(r.endIndex - MathCeil(zNum * (fDen - fNum), zDen * fDen), len))

\* C22 as stated (zoom formula with clamping): for the range useWheelZoom
\* reads (stale ranges included), every zoom amount and focus fraction, an
\* accepted calculateNewRange result is the formula with both bounds clamped
\* to [0, length-1]; a zoom amount > 0 does not widen the window and a zoom
\* amount < 0 does not narrow it.
C22_ZoomFormula ==
  pLen > 0 =>
    \A zNum \in (-MaxZoomNum)..MaxZoomNum, fNum \in 0..FocusDen :
      LET out == calculateNewRange(rangeRef, pLen, zNum, ZoomDen, fNum, FocusDen)
      IN  ~ZoomRejected(rangeRef, pLen, zNum, ZoomDen, fNum, FocusDen) =>
            /\ out = ZoomFormula(rangeRef, pLen, zNum, ZoomDen, fNum, FocusDen)
            /\ zNum > 0 => WindowSize(out) <= WindowSize(rangeRef)
            /\ zNum < 0 => WindowSize(out) >= WindowSize(rangeRef)

\* C22 amended: an accepted result is the clamped formula; a zoom amount > 0
\* returns a window inside the input window; a zoom amount < 0 returns a
\* window that contains the part of the input window that lies in the
\* dataset.
C22_ZoomFormulaWithinDataset ==
  pLen > 0 =>
    \A zNum \in (-MaxZoomNum)..MaxZoomNum, fNum \in 0..FocusDen :
      LET out == calculateNewRange(rangeRef, pLen, zNum, ZoomDen, fNum, FocusDen)
      IN  ~ZoomRejected(rangeRef, pLen, zNum, ZoomDen, fNum, FocusDen) =>
            /\ out = ZoomFormula(rangeRef, pLen, zNum, ZoomDen, fNum, FocusDen)
            /\ zNum > 0 => /\ out.startIndex >= rangeRef.startIndex
                           /\ out.endIndex <= rangeRef.endIndex
            /\ zNum < 0 => /\ out.startIndex <= rangeRef.startIndex
                           /\ out.endIndex >= Min(rangeRef.endIndex, pLen - 1)

\* C22 witness: after the dataset shrank and before the clamped range is
\* rendered, a zoom-out of a range that ends beyond the dataset was accepted
\* and stored a narrower range, ending at the last index.
C22_Witness ==
  /\ pOp \in {"zoom", "pinch"}
  /\ rangeRef.endIndex > pLen - 1
  /\ \E fNum \in 0..WheelFocusDen : internalRange = performZoom(rangeRef, pLen, -1, fNum)
  /\ internalRange.endIndex = pLen - 1
  /\ WindowSize(internalRange) < WindowSize(rangeRef)

\* C23 (wheel direction is sign(-deltaY)): a wheel event with deltaY < 0
\* does not widen the window, one with deltaY > 0 does not narrow it, and one
\* with deltaY = 0 leaves the range as it was.  Stated for the range that
\* results from each wheel event of useWheelZoom on its own.
C23_WheelDirection ==
  [][lastWheel' # Null =>
       /\ lastWheel'.deltaY < 0 => WindowSize(unthrottledRange') <= WindowSize(unthrottledRange)
       /\ lastWheel'.deltaY > 0 => WindowSize(unthrottledRange') >= WindowSize(unthrottledRange)
       /\ lastWheel'.deltaY = 0 => unthrottledRange' = unthrottledRange]_vars

\* ------------------------------------------------------------- projection
\* useChartData of InteractiveChart: indexedData, visibleData; formatXAxis
\* of the canvas.  A point is its __index.

\* Array.prototype.slice(begin, end): a negative argument counts from the end.
ArraySliceTo(arr, begin, end) ==
  LET k == IF begin < 0 THEN Max(Len(arr) + begin, 0) ELSE Min(begin, Len(arr))
      final == IF end < 0 THEN Max(Len(arr) + end, 0) ELSE Min(end, Len(arr))
  IN  SubSeq(arr, k + 1, final)

\* data.map((item, i) => ({ ...item, __index: i }))
indexedData(dataLength) == [i \in 1..dataLength |-> i - 1]

\* indexedData.slice(Math.floor(start), Math.ceil(end) + 1) of currentWindow
visibleData(range, dataLength) ==
  LET w == currentWindow(range, dataLength)
  IN  ArraySliceTo(indexedData(dataLength), MathFloor(w[1], 1), MathCeil(w[2], 1) + 1)

\* formatXAxis(value): "" when indexedData[value] is undefined, else the
\* point's label as a string.
formatXAxis(dataLength, value) ==
  IF value \in 0..(dataLength - 1) THEN "label" ELSE ""

\* The points whose index lies in the window, in order.
PointsInWindow(w, dataLength) ==
  LET Inside(i) == MathFloor(w[1], 1) <= i /\ i <= MathCeil(w[2], 1)
  IN  SelectSeq(indexedData(dataLength), Inside)

\* C24 (projection): the visible data of the rendered window is exactly the
\* points at indices floor(start) .. ceil(end), in order; and the index-label
\* formatter returns the empty string for every index outside the dataset.
C24_Projection ==
  /\ visibleData(windowRangeR, iLen)
       = PointsInWindow(currentWindow(windowRangeR, iLen), iLen)
  /\ \A index \in (-2)..(iLen + 2) :
       index \notin 0..(iLen - 1) => formatXAxis(iLen, index) = ""

\* C25 (drag accumulator accounting): the accumulator is 0 right after every
\* press, release and mouse-leave; a mouse-move whose accumulated delta is
\* below the threshold applies no pan; and a pan consumes
\* steps = trunc(accumulated / 15) whole steps and leaves
\* accumulated - steps * 15, of magnitude below 15 and of the sign of the
\* accumulated delta.
C25_AccumulatorAccounting ==
  [][/\ iOp' \in {"down", "up", "leave"} => dragAccumulator' = 0
     /\ iOp' \in {"move", "pan", "panEdge"} =>
          \E deltaX \in DragDeltas :
            LET accumulated == dragAccumulator + deltaX
                steps == MathTrunc(accumulated, DRAG_THRESHOLD)
            IN  IF Abs(accumulated) < DRAG_THRESHOLD
                  THEN /\ windowRange' = windowRange
                       /\ dragAccumulator' = accumulated
                       /\ iOp' = "move"
                  ELSE /\ steps # 0
                       /\ dragAccumulator' = accumulated - steps * DRAG_THRESHOLD
                       /\ Abs(dragAccumulator') < DRAG_THRESHOLD
                       /\ dragAccumulator' * accumulated >= 0
                       /\ iOp' # "move"]_vars

\* C25 witness: a pan consumed one step and left a remainder.
C25_Witness ==
  /\ iOp = "pan"
  /\ dragAccumulator # 0
  /\ windowRange # Null

\* ------------------------------------- the Chart provider with its legend
\* The provider's range, selection and hiddenSeries states together, over a
\* dataset that is empty or has VisLen points, and a config prop that has
\* all series or lacks one.

VisLengths == {0, VisLen}
Configs == {SeriesKeys, SeriesKeys \ {"yield"}}

VisInit ==
  /\ pOff = 0
  /\ pLen \in VisLengths
  /\ internalRange = createInitialRange(pLen)
  /\ rangeRef = createInitialRange(pLen)
  /\ selection = IdleSelection /\ selectionR = IdleSelection
  /\ anchorIdx = NoIndex /\ cursorIdx = NoIndex
  /\ wheelFrame = Null /\ lastTouchDistance = 0
  /\ pOp = "init"
  /\ hiddenSeries = {} /\ iHiddenSeries = {} /\ tHiddenSeries = {} /\ lOp = "init"
  /\ config \in Configs
  /\ RmIdle /\ IIdle /\ WIdle /\ QIdle /\ EIdle

\* A click on a legend item; the legend has one item per series of config.
VToggleSeries ==
  \E dataKey \in config :
    /\ hiddenSeries' = toggleSeries(hiddenSeries, dataKey)
    /\ lOp' = "toggle"
    /\ UNCHANGED <<iHiddenSeries, tHiddenSeries, config, exceptL>>

\* The parent replaces the dataset by one with other series: new data and
\* config props; the provider renders.
VDatasetReplaced ==
  \E c \in Configs, len \in VisLengths :
    /\ c # config
    /\ config' = c
    /\ pLen' = len
    /\ PRendered(pOff, len)
    /\ pOp' = "data"
    /\ lOp' = "config"
    /\ UNCHANGED <<pOff, selection, anchorIdx, cursorIdx, lastTouchDistance,
                   hiddenSeries, iHiddenSeries, tHiddenSeries,
                   rmVars, iVars, wVars, qVars, eVars>>

VisNext ==
  \/ VToggleSeries
  \/ VDatasetReplaced
  \/ PDataChange({0}, VisLengths)
  \/ PRender
  \/ PBrushChange
  \/ PResetZoom
  \/ PWheel
  \/ PFrame

SpecVisibility == VisInit /\ [][VisNext]_vars

\* C26 (hidden-series set and range are independent): a step that changes
\* the hidden set leaves the range and the selection as they were; a step
\* that changes the range, the selection or the dataset length over the same
\* series leaves the hidden set as it was; and after a replacement of the
\* dataset by one with other series the hidden set has no key that the new
\* dataset lacks.
C26_HiddenSeriesIndependent ==
  [][/\ hiddenSeries' # hiddenSeries =>
          (internalRange' = internalRange /\ selection' = selection)
     /\ (config' = config
           /\ (internalRange' # internalRange \/ selection' # selection \/ pLen' # pLen))
          => hiddenSeries' = hiddenSeries
     /\ config' # config => hiddenSeries' \subseteq config']_vars

\* ------------------------------------------------- repeated wheel zoom-out
\* The user has set a range with the brush and keeps scrolling down with the
\* cursor at one place of the canvas.  lastWheel is the event that repeats.

ZoLengths == (MIN_ZOOM_ITEMS + 2)..ZoMaxLen

ZoInit ==
  /\ pOff = 0
  /\ pLen \in ZoLengths
  /\ \E s \in 0..(pLen - 1), e \in 0..(pLen - 1) :
       /\ s <= e
       /\ internalRange = Range(s, e)
  /\ rangeRef = internalRange
  /\ selection = IdleSelection /\ selectionR = IdleSelection
  /\ anchorIdx = NoIndex /\ cursorIdx = NoIndex
  /\ wheelFrame = Null /\ lastTouchDistance = 0
  /\ pOp = "brush"
  /\ \E fNum \in 0..WheelFocusDen :
       lastWheel = [deltaY |-> 100, direction |-> wheelDirection(100), fNum |-> fNum]
  /\ unthrottledRange = internalRange
  /\ RmIdle /\ IIdle /\ LIdle /\ QIdle /\ EIdle

\* handleWheel for the repeated event; rafThrottle takes the call when it
\* holds none.
ZoWheel ==
  /\ wheelFrame = Null
  /\ wheelFrame' = Frame(lastWheel.direction, lastWheel.fNum, pLen, TRUE)
  /\ UNCHANGED <<pOff, pLen, internalRange, rangeRef, selection, selectionR,
                 anchorIdx, cursorIdx, lastTouchDistance, pOp, exceptP>>

ZoNext == ZoWheel \/ PFrame \/ PRender

\* The browser delivers the wheel events, runs requested animation frames,
\* and React renders pending state.
SpecZoomOut ==
  /\ ZoInit /\ [][ZoNext]_vars
  /\ WF_vars(ZoWheel) /\ WF_vars(PFrame) /\ WF_vars(PRender)

\* C27 (zoom-out always makes progress): over a dataset of at least 7
\* points, repeated wheel zoom-out events at a fixed focus fraction
\* eventually reach the fully zoomed-out range (0, length - 1).
C27_ZoomOutReachesFullRange ==
  <>(internalRange = createInitialRange(pLen))

\* C28 (no lost pan steps): every pan of a drag shifts the window the chart
\* holds by the negated number of steps it consumes from the accumulator,
\* whenever that shift passes no edge; so over a drag the total shift is the
\* negated total of the steps consumed, whatever the interleaving of
\* mouse-move events and renders.
C28_NoLostPanSteps ==
  [][iOp' = "pan" =>
       \A deltaX \in DragDeltas :
         LET accumulated == dragAccumulator + deltaX
             steps == MathTrunc(accumulated, DRAG_THRESHOLD)
             w == windowOrFull(windowRange, iLen)
         IN  (/\ Abs(accumulated) >= DRAG_THRESHOLD
              /\ dragAccumulator' = accumulated - steps * DRAG_THRESHOLD
              /\ ~passesEdge(w, accumulated, iLen))
               => windowRange' = <<w[1] - steps, w[2] - steps>>]_vars

\* ------------------------------------------------- provider left untouched
\* The uncontrolled ChartProvider while the parent replaces the dataset and
\* the user does nothing but press the reset button when it is rendered: no
\* wheel, no selection, no brush.
UtLengths == 0..UtMaxLen
UtOffsets == {0, 1}

UtInit ==
  /\ pOff \in UtOffsets
  /\ pLen \in UtLengths
  /\ internalRange = createInitialRange(pLen)
  /\ rangeRef = createInitialRange(pLen)
  /\ selection = IdleSelection /\ selectionR = IdleSelection
  /\ anchorIdx = NoIndex /\ cursorIdx = NoIndex
  /\ wheelFrame = Null /\ lastTouchDistance = 0
  /\ pOp = "init"
  /\ RmIdle /\ IIdle /\ LIdle /\ WIdle /\ QIdle /\ EIdle

UtNext ==
  \/ PDataChange(UtOffsets, UtLengths)
  \/ PRender
  \/ PResetZoom

SpecUntouched == UtInit /\ [][UtNext]_vars

\* C29 (zoomed state only from interaction): with no zoom, selection or
\* brush change since mount or the last reset, after any dataset
\* replacements the range is (0, length - 1) and isZoomed is false.
C29_ZoomedOnlyByInteraction ==
  /\ internalRange = createInitialRange(pLen)
  /\ ~checkIsZoomed(internalRange, pLen)

\* ------------------------------------------------------ export, scheduled
\* The export model under the scheduling of the event loop: the 50 ms timer
\* of a waiting export fires, and the capture promise of every export in
\* progress settles (resolves or rejects).
ExportFairness ==
  /\ \A ch \in Charts : WF_vars(ECaptureStarts /\ eOp' = <<"capture", ch>>)
  /\ \A ch \in Charts, k \in 1..MaxExports :
       WF_vars(ECaptureSettled /\ k \in ExportIds(eExports[ch])
                               /\ k \notin ExportIds(eExports'[ch]))

\* One chart is on the page: each instance of the hook has its own
\* container, flag and calls in progress, and shares none with another.
EfInit ==
  /\ containerRef = [ch \in Charts |-> FALSE]
  /\ isExporting = [ch \in Charts |-> FALSE]
  /\ eExports = [ch \in Charts |-> <<>>]
  /\ eOutcome = [ch \in Charts |-> "none"]
  /\ eOp \in {<<"init", ch>> : ch \in Charts}
  /\ RmIdle /\ IIdle /\ PIdle /\ LIdle /\ WIdle /\ QIdle

EfNext ==
  \/ EBind /\ eOp'[2] = eOp[2]
  \/ EUnbind /\ eOp'[2] = eOp[2]
  \/ EExecuteExport /\ eOp'[2] = eOp[2]
  \/ ECaptureStarts /\ eOp'[2] = eOp[2]
  \/ ECaptureSettled /\ eOp'[2] = eOp[2]

SpecExportFair == EfInit /\ [][EfNext]_vars /\ ExportFairness

\* C30 (export always releases the flag): every export that has set
\* isExporting eventually finishes, and the step that finishes it, after a
\* successful capture and after a failed one, sets isExporting to false,
\* ends in a download or a logged error (never a thrown one), and leaves the
\* range, the selection and the hidden series as they were.
C30_ExportReleasesFlag ==
  /\ \A ch \in Charts, k \in 1..MaxExports :
       (k \in ExportIds(eExports[ch])) ~> (k \notin ExportIds(eExports[ch]))
  /\ [][\A ch \in Charts :
          (ExportIds(eExports'[ch]) # ExportIds(eExports[ch])
             /\ ExportIds(eExports'[ch]) \subseteq ExportIds(eExports[ch])) =>
            /\ ~isExporting'[ch]
            /\ eOutcome'[ch] \in {"downloaded", "logged"}
            /\ UNCHANGED <<iVars, pVars, lVars>>]_vars

\* A failed capture has been logged and the flag is released.
C30_Witness ==
  \E ch \in Charts :
    /\ eOp = <<"done", ch>>
    /\ eOutcome[ch] = "logged"
    /\ ~isExporting[ch]

====
